---- MODULE Spec2Model ----
(***************************************************************************)
(* The DAG execution engine of agent-orchestrator: one workflow run, from  *)
(* execute_workflow (app/main.py) through Orchestrator.run and             *)
(* Orchestrator._execute_node (app/orchestrator.py) to the run entry kept  *)
(* by InMemoryStorage (app/storage.py).                                    *)
(*                                                                         *)
(* Python values are modelled as records (string-keyed functions): a       *)
(* string s is [val |-> s], a message is [msg |-> <<words>>], None is      *)
(* [none |-> TRUE], a dict is the function from its keys to its values.    *)
(***************************************************************************)
EXTENDS Integers, Sequences, FiniteSets, TLC

VARIABLES
    nodes,           \* ids of the request's node list
    edges,           \* the request's edges, as <<from_, to>> pairs
    initial_inputs,  \* the request's initial_inputs dict
    node_map,        \* node id -> node definition [agent, params]
    behaviour,       \* node id -> what the node's agent does when called
    pc,              \* where execute_workflow / Orchestrator.run stands
    runs,            \* InMemoryStorage._runs
    executions,      \* Orchestrator.executions: node id -> NodeExecution
    pending,         \* local `pending` of Orchestrator.run
    completed,       \* local `completed` of Orchestrator.run
    results,         \* local `results` of Orchestrator.run
    tasks,           \* the wave's task list still to be awaited, in order
    task,            \* node id -> state of the asyncio task of the node
    agent_input,     \* node id -> input_data handed to the agent (None before)
    attempts,        \* node id -> number of AgentWrapper.run calls made
    report,          \* the blocked list of the deadlock error (None before)
    wave_of,         \* node id -> the loop iteration that created its task (0: none)
    semaphore        \* the orchestrator's asyncio.Semaphore (None before it exists)

vars == <<nodes, edges, initial_inputs, node_map, behaviour, pc, runs,
          executions, pending, completed, results, tasks, task, agent_input,
          attempts, report, wave_of, semaphore>>

request == <<nodes, edges, initial_inputs, node_map, behaviour>>

----------------------------------------------------------------------------
(* Bounds of the model and constants of the program *)

\* the most edges a workflow of the model has
MaxEdges == 3

\* the most leading attempts of an agent that fail in the model
MaxFail == 3

\* Orchestrator(max_concurrent=3)
max_concurrent == 3

\* Orchestrator(max_retries=2)
max_retries == 2

\* the ids a workflow may use; a request declares a prefix of them as nodes,
\* so the others are ids no node declares
Ids == {"A", "B", "C"}

NodeSets == {{}, {"A"}, {"A", "B"}, {"A", "B", "C"}}

\* the agents registered by execute_workflow
agents == {"data_fetcher", "calculator"}

\* Orchestrator(timeout=30)
timeout == 30

\* the single run id of the model
RunId == "run"

----------------------------------------------------------------------------
(* Python values *)

None == [none |-> TRUE]

Str(s) == [val |-> s]

Msg(words) == [msg |-> words]

EmptyDict == [k \in {} |-> None]

\* dict.update: the entries of e replace and extend those of d
Update(d, e) ==
    [k \in (DOMAIN d) \cup (DOMAIN e) |-> IF k \in DOMAIN e THEN e[k] ELSE d[k]]

\* d[k] = v
Put(d, k, v) == Update(d, [x \in {k} |-> v])

\* the orders in which a set may be iterated
Orders(S) ==
    {s \in [1..Cardinality(S) -> S] :
        \A i, j \in 1..Cardinality(S) : i # j => s[i] # s[j]}

----------------------------------------------------------------------------
(* The requests of the model: workflows and the behaviour of their agents *)

\* the agent of a node succeeds after `fails` failing attempts, each of
\* which raises ("raise") or runs into the timeout ("timeout")
Ok == [fails |-> 0, kind |-> "raise"]

Fails(k, c) == [fails |-> k, kind |-> c]

Behaviours == {Ok} \cup {Fails(k, c) : k \in 1..MaxFail, c \in {"raise", "timeout"}}

\* agent fields of a node: a registered agent, an unregistered one, none
AgentTypes == {"calculator", "chart_generator", ""}

DataKeys == {"A", "x"}

\* the dicts binding some of DataKeys to the value v
Dicts(v) == UNION {[K -> {Str(v)}] : K \in SUBSET DataKeys}

Graphs == {E \in SUBSET (Ids \X Ids) : Cardinality(E) <= MaxEdges}

Workflow(N, E, ii, nm, b) ==
    [nodes |-> N, edges |-> E, initial_inputs |-> ii, node_map |-> nm, behaviour |-> b]

\* every graph of at most MaxEdges edges over Ids, each agent succeeding at
\* once or failing every attempt
ControlWorkflows ==
    UNION {{Workflow(N, E, EmptyDict,
                     [n \in N |-> [agent |-> "calculator", params |-> EmptyDict]], b) :
                E \in Graphs, b \in [N -> {Ok, Fails(MaxFail, "raise")}]} :
           N \in NodeSets}

\* a chain and a fan-in, under every choice of initial inputs and parameters
DataWorkflows ==
    UNION {{Workflow(g[1], g[2], ii,
                     [n \in g[1] |-> [agent |-> "calculator", params |-> pm[n]]], b) :
                ii \in Dicts("init"), pm \in [g[1] -> Dicts("param")],
                b \in [g[1] -> {Ok, Fails(MaxFail, "timeout")}]} :
           g \in {<<{"A", "B"}, {<<"A", "B">>}>>,
                  <<{"A", "B", "C"}, {<<"A", "C">>, <<"B", "C">>}>>}}

\* one node, and a chain of two, under every agent field and behaviour
AgentWorkflows ==
    UNION {{Workflow(g[1], g[2], EmptyDict,
                     [n \in g[1] |-> [agent |-> at[n], params |-> EmptyDict]], b) :
                at \in [g[1] -> AgentTypes], b \in [g[1] -> Behaviours]} :
           g \in {<<{"A"}, {}>>, <<{"A", "B"}, {<<"A", "B">>}>>}}

Workflows == ControlWorkflows \cup DataWorkflows \cup AgentWorkflows

\* one node more than max_concurrent
WideNodes == {"A", "B", "C", "D"}

\* four nodes that are all independent, or all but one, or of which one
\* waits for itself, each agent succeeding at once or failing every attempt
WideWorkflows ==
    {Workflow(WideNodes, E, EmptyDict,
              [n \in WideNodes |-> [agent |-> "calculator", params |-> EmptyDict]], b) :
         E \in {{}, {<<"A", "B">>}, {<<"D", "D">>}},
         b \in [WideNodes -> {Ok, Fails(MaxFail, "raise")}]}

----------------------------------------------------------------------------
(* InMemoryStorage *)

\* InMemoryStorage.create_run
storage_create_run(rs, id) == Put(rs, id, [status |-> "PENDING", nodes |-> EmptyDict])

\* InMemoryStorage.set_node_result
set_node_result(rs, id, n, result) ==
    IF id \in DOMAIN rs
    THEN Put(rs, id, [rs[id] EXCEPT !.nodes = Put(rs[id].nodes, n, result)])
    ELSE rs

\* InMemoryStorage.set_status
set_status(rs, id, status) ==
    IF id \in DOMAIN rs THEN Put(rs, id, [rs[id] EXCEPT !.status = status]) ELSE rs

\* InMemoryStorage.cancel_run: a stored run that is neither COMPLETED nor
\* FAILED becomes CANCELLED
cancel_run(rs, id) ==
    IF id \in DOMAIN rs /\ rs[id].status \notin {"COMPLETED", "FAILED"}
    THEN Put(rs, id, [rs[id] EXCEPT !.status = "CANCELLED"])
    ELSE rs

\* GET /runs/{run_id}: None (404) while the run is not stored, else the
\* stored status and the per-node results
get_run(id) ==
    IF id \in DOMAIN runs
    THEN [status |-> runs[id].status, results |-> runs[id].nodes]
    ELSE None

----------------------------------------------------------------------------
(* Orchestrator *)

\* NodeExecution(id=node_id, depends_on=depends_on)
NodeExecution(n, deps) ==
    [id |-> n, status |-> "PENDING", result |-> None, error |-> None,
     retries |-> 0, depends_on |-> deps]

\* the sources of the edges into n
DependsOn(n) == {e[1] : e \in {d \in edges : d[2] = n}}

\* faulty variant of Runnable: one finished dependency is taken for all
RunnableSomeDep ==
    {n \in pending : \/ executions[n].depends_on = {}
                     \/ executions[n].depends_on \cap completed # {}}

\* faulty variant of Runnable: the dependencies are not looked at
RunnableAll == pending

\* faulty variant of Runnable: every node is looked at, not only `pending`
RunnableAgain ==
    {n \in DOMAIN executions : executions[n].depends_on \subseteq completed}

\* faulty variant of Runnable: a FAILED dependency blocks its dependents
RunnableOnlySucceeded ==
    {n \in pending : /\ executions[n].depends_on \subseteq completed
                     /\ \A d \in executions[n].depends_on :
                            executions[d].status = "COMPLETED"}

\* the nodes of `pending` whose dependencies are all in `completed`
Runnable == {n \in pending : executions[n].depends_on \subseteq completed}

\* faulty variant of DeadlockDetected: the check is left out
DeadlockNever == FALSE

\* if not runnable and pending
DeadlockDetected == Runnable = {} /\ pending # {}

\* the number of loop iterations that have created tasks
Wave ==
    IF nodes = {} THEN 0
    ELSE CHOOSE w \in {wave_of[n] : n \in nodes} : \A n \in nodes : wave_of[n] <= w

\* faulty variant of PendingRemove: the node is left in `pending`
PendingKept(p, n) == p

\* pending.remove(node_id)
PendingRemove(p, n) == p \ {n}

\* faulty variant of WaveDrained: the loop goes on after the first task
WaveDrainedEarly(rest) == TRUE

\* the `for node_id, task in tasks` loop has awaited every task of the wave
WaveDrained(rest) == rest = <<>>

\* faulty variant of Blocked: each node is listed with all its dependencies
BlockedAllDeps ==
    [n \in {m \in pending : executions[m].depends_on \ completed # {}} |->
        executions[n].depends_on]

\* self.semaphore = asyncio.Semaphore(max_concurrent): its free slots
asyncio_Semaphore(value) == [value |-> value]

\* faulty variant of Admitted: at most max_concurrent nodes of a wave are
\* launched
AdmittedBounded(runnable) ==
    IF Cardinality(runnable) <= max_concurrent THEN runnable
    ELSE CHOOSE S \in SUBSET runnable : Cardinality(S) = max_concurrent

\* `for node_id in runnable`: the nodes of the runnable set a task is created
\* for
Admitted(runnable) == runnable

\* the pending nodes with the dependencies each still waits for
Blocked ==
    [n \in {m \in pending : executions[m].depends_on \ completed # {}} |->
        executions[n].depends_on \ completed]

\* the dict Orchestrator.run returns
FinalResults ==
    [n \in DOMAIN executions |->
        [status |-> executions[n].status, result |-> executions[n].result,
         error |-> executions[n].error, retries |-> executions[n].retries]]

RECURSIVE StoreAll(_, _, _)
\* for node_id, result in results.items(): storage.set_node_result(...)
StoreAll(rs, res, todo) ==
    IF todo = {} THEN rs
    ELSE LET n == CHOOSE m \in todo : TRUE
         IN StoreAll(set_node_result(rs, RunId, n, res[n]), res, todo \ {n})

\* what the agent of node n returns when it succeeds
AgentOutput(n) == [result |-> Str(n)]

\* the outcome of the i-th call of an agent behaving as b
Outcome(b, i) == IF i <= b.fails THEN b.kind ELSE "ok"

\* AgentWrapper.run: the agent's result, or the exception raised
AgentWrapper_run(name, outcome, n) ==
    CASE outcome = "ok" -> [ok |-> TRUE, value |-> AgentOutput(n)]
      [] outcome = "timeout" ->
            [ok |-> FALSE,
             value |-> Msg(<<"Agent", name, "timed out after", ToString(timeout), "seconds">>)]
      [] outcome = "raise" ->
            [ok |-> FALSE, value |-> Msg(<<"Agent", name, "failed:", "agent error">>)]

\* faulty variant of InputData: the parameters are applied before the
\* predecessor bindings
InputDataParamsFirst(n) ==
    LET deps == {d \in executions[n].depends_on : d \in DOMAIN results}
        bound == [d \in deps |->
                    IF "result" \in DOMAIN results[d]
                    THEN results[d]["result"] ELSE results[d]]
    IN Update(Update(initial_inputs, node_map[n].params), bound)

\* faulty variant of InputData: the envelope is bound as it is
InputDataNoUnwrap(n) ==
    LET deps == {d \in executions[n].depends_on : d \in DOMAIN results}
    IN Update(Update(initial_inputs, [d \in deps |-> results[d]]), node_map[n].params)

\* the input_data _execute_node builds for node n
InputData(n) ==
    LET deps == {d \in executions[n].depends_on : d \in DOMAIN results}
        bound == [d \in deps |->
                    IF "result" \in DOMAIN results[d]
                    THEN results[d]["result"] ELSE results[d]]
    IN Update(Update(initial_inputs, bound), node_map[n].params)

\* faulty variant of MarkCompleted: the status is not updated
MarkCompletedNoStatus(e, result) == [e EXCEPT !.result = result]

\* execution.status = NodeStatus.COMPLETED; execution.result = result
MarkCompleted(e, result) == [e EXCEPT !.status = "COMPLETED", !.result = result]

\* execution.status = NodeStatus.FAILED; execution.error = str(e)
MarkFailed(e, error) == [e EXCEPT !.status = "FAILED", !.error = error]

\* faulty variant of FinalStatus: a failed node fails the run
FinalStatusFromNodes ==
    IF \E n \in DOMAIN executions : executions[n].status = "FAILED"
    THEN "FAILED" ELSE "COMPLETED"

\* the status execute_workflow stores once run has returned
FinalStatus == "COMPLETED"

\* raise Exception(f"Error in node {node_id}: {str(e)}")
NodeError(n, e) == Msg(<<"Error in node", n, ":">> \o e.msg)

----------------------------------------------------------------------------
(* The state after POST /runs has created the execute_workflow task *)

InitFrom(W) ==
    \E wf \in W :
        /\ nodes = wf.nodes
        /\ edges = wf.edges
        /\ initial_inputs = wf.initial_inputs
        /\ node_map = wf.node_map
        /\ behaviour = wf.behaviour
        /\ pc = "submitted"
        /\ runs = EmptyDict
        /\ executions = EmptyDict
        /\ pending = {}
        /\ completed = {}
        /\ results = EmptyDict
        /\ tasks = <<>>
        /\ task = [n \in wf.nodes |-> [state |-> "none", value |-> None]]
        /\ agent_input = [n \in wf.nodes |-> None]
        /\ attempts = [n \in wf.nodes |-> 0]
        /\ report = None
        /\ wave_of = [n \in wf.nodes |-> 0]
        /\ semaphore = None

Init == InitFrom(Workflows)

\* the workflows under which the progress of a run is checked: every graph
\* and every agent behaviour, with no initial inputs and no parameters
FairInit == InitFrom(ControlWorkflows \cup AgentWorkflows)

----------------------------------------------------------------------------
(* execute_workflow and Orchestrator.run *)

\* execute_workflow, up to the call of orchestrator.run: the run is stored
\* as PENDING and a fresh Orchestrator gets the agents registered
create_run ==
    /\ pc = "submitted"
    /\ runs' = storage_create_run(runs, RunId)
    /\ semaphore' = asyncio_Semaphore(max_concurrent)
    /\ pc' = "initializing"
    /\ UNCHANGED <<request, executions, pending, completed, results, tasks, task,
                   agent_input, attempts, report, wave_of>>

\* Orchestrator.run, before its loop: one NodeExecution per node with its
\* dependency set, pending = all node ids, completed and results empty
run_init ==
    /\ pc = "initializing"
    /\ executions' = [n \in nodes |-> NodeExecution(n, DependsOn(n))]
    /\ pending' = nodes
    /\ completed' = {}
    /\ results' = EmptyDict
    /\ pc' = "dispatching"
    /\ UNCHANGED <<request, runs, tasks, task, agent_input, attempts, report, wave_of,
                   semaphore>>

\* one iteration of the loop that raises no deadlock error: a task is
\* created for every runnable node, in the order `pending` is iterated
run_dispatch ==
    /\ pc = "dispatching"
    /\ pending # {}
    /\ ~DeadlockDetected
    /\ \E order \in Orders(Admitted(Runnable)) : tasks' = order
    /\ task' = [n \in nodes |->
                  IF n \in Admitted(Runnable) THEN [state |-> "created", value |-> None]
                  ELSE task[n]]
    /\ wave_of' = [n \in nodes |->
                      IF n \in Admitted(Runnable) THEN Wave + 1 ELSE wave_of[n]]
    /\ pc' = IF Runnable = {} THEN "dispatching" ELSE "draining"
    /\ UNCHANGED <<request, runs, executions, pending, completed, results,
                   agent_input, attempts, report, semaphore>>

\* one iteration of the loop with nothing runnable: the deadlock error is
\* raised out of run, and execute_workflow stores the run as FAILED
run_deadlock ==
    /\ pc = "dispatching"
    /\ pending # {}
    /\ DeadlockDetected
    /\ report' = [blocked |-> Blocked]
    /\ runs' = set_status(runs, RunId, "FAILED")
    /\ pc' = "failed"
    /\ UNCHANGED <<request, executions, pending, completed, results, tasks, task,
                   agent_input, attempts, wave_of, semaphore>>

\* await task, for the first task of the wave not yet awaited: its result
\* or its exception is recorded and the node moves to completed
run_drain ==
    /\ pc = "draining"
    /\ tasks # <<>>
    /\ LET n == Head(tasks) IN
        /\ task[n].state \in {"returned", "raised"}
        /\ IF task[n].state = "returned"
           THEN /\ results' = Put(results, n, task[n].value)
                /\ UNCHANGED executions
           ELSE /\ executions' = [executions EXCEPT
                                    ![n] = MarkFailed(@, task[n].value)]
                /\ results' = Put(results, n, [error |-> task[n].value])
        /\ completed' = completed \cup {n}
        /\ pending' = PendingRemove(pending, n)
    /\ tasks' = Tail(tasks)
    /\ pc' = IF WaveDrained(Tail(tasks)) THEN "dispatching" ELSE "draining"
    /\ UNCHANGED <<request, runs, task, agent_input, attempts, report, wave_of, semaphore>>

\* the loop ends with pending empty: run returns the per-node dict, and
\* execute_workflow stores each entry and then the status COMPLETED
run_return ==
    /\ pc = "dispatching"
    /\ pending = {}
    /\ runs' = set_status(StoreAll(runs, FinalResults, DOMAIN FinalResults),
                          RunId, FinalStatus)
    /\ pc' = "done"
    /\ UNCHANGED <<request, executions, pending, completed, results, tasks, task,
                   agent_input, attempts, report, wave_of, semaphore>>

----------------------------------------------------------------------------
(* Orchestrator._execute_node *)

\* the ValueError _execute_node raises for the node's agent field, or None
ConfigError(n) ==
    LET agent_type == node_map[n].agent IN
    IF agent_type = ""
    THEN Msg(<<"Node", n, "is missing 'agent' field">>)
    ELSE IF agent_type \notin agents
         THEN Msg(<<"Agent type", agent_type, "not found in registered agents">>)
         ELSE None

\* the task of node n runs up to its await of the agent: the record becomes
\* RUNNING; a bad agent field fails the node, else the inputs are resolved
\* and the agent is called
execute_node_start(n) ==
    /\ task[n].state = "created"
    /\ IF ConfigError(n) # None
       THEN /\ executions' = [executions EXCEPT
                                ![n] = MarkFailed(@, ConfigError(n))]
            /\ task' = [task EXCEPT ![n] = [state |-> "raised",
                                            value |-> NodeError(n, ConfigError(n))]]
            /\ UNCHANGED <<agent_input, attempts>>
       ELSE /\ executions' = [executions EXCEPT ![n].status = "RUNNING"]
            /\ agent_input' = [agent_input EXCEPT ![n] = InputData(n)]
            /\ attempts' = [attempts EXCEPT ![n] = @ + 1]
            /\ task' = [task EXCEPT ![n].state = "awaiting"]
    /\ UNCHANGED <<request, pc, runs, pending, completed, results, tasks, report,
                   wave_of, semaphore>>

\* the agent call of node n ends: on a result the record becomes COMPLETED
\* and the task returns the envelope; on an exception of the wrapper the
\* record becomes FAILED and the task raises
execute_node_finish(n) ==
    /\ task[n].state = "awaiting"
    /\ LET agent_type == node_map[n].agent
           r == AgentWrapper_run(agent_type, Outcome(behaviour[n], attempts[n]), n)
       IN IF r.ok
          THEN /\ executions' = [executions EXCEPT
                                   ![n] = MarkCompleted(@, r.value)]
               /\ task' = [task EXCEPT ![n] =
                             [state |-> "returned",
                              value |-> [result |-> r.value, node_id |-> Str(n),
                                         agent_type |-> Str(agent_type)]]]
          ELSE /\ executions' = [executions EXCEPT
                                   ![n] = MarkFailed(@, r.value)]
               /\ task' = [task EXCEPT ![n] = [state |-> "raised",
                                               value |-> NodeError(n, r.value)]]
    /\ UNCHANGED <<request, pc, runs, pending, completed, results, tasks,
                   agent_input, attempts, report, wave_of, semaphore>>

----------------------------------------------------------------------------

Next ==
    \/ create_run
    \/ run_init
    \/ run_dispatch
    \/ run_deadlock
    \/ run_drain
    \/ run_return
    \/ \E n \in nodes : execute_node_start(n)
    \/ \E n \in nodes : execute_node_finish(n)

Spec == Init /\ [][Next]_vars

\* every task and the scheduler keep being run by the event loop, and every
\* agent call ends (with a result, an exception or the timeout)
FairSpec == FairInit /\ [][Next]_vars /\ WF_vars(Next)

(***************************************************************************)
(* Cancellation of a node task.  Nothing in the repository cancels a node  *)
(* task; the surrounding process may (task.cancel(), event loop shutdown). *)
(* asyncio.CancelledError is a BaseException: `except Exception` in        *)
(* AgentWrapper.run, Orchestrator.run and execute_workflow lets it pass.   *)
(***************************************************************************)

\* faulty variant of MarkCancelled: no handler, the record is left as it was
MarkCancelledNoHandler(e) == e

\* except asyncio.CancelledError: status = FAILED; error = "Node execution
\* was cancelled"
MarkCancelled(e) ==
    [e EXCEPT !.status = "FAILED", !.error = Msg(<<"Node execution was cancelled">>)]

\* the task of node n is cancelled: during its agent call the CancelledError
\* is raised at the await of _execute_node and re-raised by its handler; a
\* task that has not started yet never runs _execute_node
cancel_node(n) ==
    /\ n \in DOMAIN task
    /\ task[n].state \in {"created", "awaiting"}
    /\ executions' = [executions EXCEPT ![n] =
                          IF task[n].state = "awaiting" THEN MarkCancelled(@) ELSE @]
    /\ task' = [task EXCEPT ![n] = [state |-> "cancelled", value |-> None]]
    /\ UNCHANGED <<request, pc, runs, pending, completed, results, tasks,
                   agent_input, attempts, report, wave_of, semaphore>>

\* `await task` on a cancelled task raises CancelledError in run: it passes
\* `except Exception` of the drain loop and of execute_workflow, so the
\* workflow task ends and nothing is stored
run_abort ==
    /\ pc = "draining"
    /\ task[Head(tasks)].state = "cancelled"
    /\ pc' = "aborted"
    /\ UNCHANGED <<request, runs, executions, pending, completed, results, tasks,
                   task, agent_input, attempts, report, wave_of, semaphore>>

NextCancel ==
    \/ Next
    \/ \E n \in nodes : cancel_node(n)
    \/ run_abort

CancelInit == InitFrom(ControlWorkflows \cup AgentWorkflows)

CancelSpec == CancelInit /\ [][NextCancel]_vars

(***************************************************************************)
(* InMemoryStorage.cancel_run called while the workflow executes.  No      *)
(* endpoint of main.py calls it; it is a method of the storage the         *)
(* workflow writes to.  Its lock is never held across an await, so each    *)
(* call is one step.                                                       *)
(***************************************************************************)

\* a caller cancels the run in storage
storage_cancel_run ==
    /\ runs' = cancel_run(runs, RunId)
    /\ UNCHANGED <<request, pc, executions, pending, completed, results, tasks, task,
                   agent_input, attempts, report, wave_of, semaphore>>

NextStorage ==
    \/ Next
    \/ storage_cancel_run

StorageInit == InitFrom(ControlWorkflows \cup AgentWorkflows)

StorageSpec == StorageInit /\ [][NextStorage]_vars

\* the workflows under which the width of a wave is checked
WideInit == InitFrom(WideWorkflows)

WideSpec == WideInit /\ [][Next]_vars

----------------------------------------------------------------------------
(* Vocabulary of the properties *)

Finished == {"COMPLETED", "FAILED"}

\* the run's stored status, "NONE" while create_run has not stored the run
StoredStatus == IF RunId \in DOMAIN runs THEN runs[RunId].status ELSE "NONE"

Terminal == StoredStatus \in {"COMPLETED", "FAILED"}

\* node n has been launched: its task was created
Launched(n) == task[n].state # "none"

RECURSIVE Ancestors(_, _)
\* the declared nodes reached from S along the dependencies, in k more steps
Ancestors(S, k) ==
    IF k = 0 THEN S
    ELSE Ancestors(S \cup UNION {DependsOn(m) \cap nodes : m \in S}, k - 1)

\* n lies on a cycle of the dependency relation of the declared nodes
OnCycle(n) == n \in Ancestors(DependsOn(n) \cap nodes, Cardinality(nodes))

Cyclic == \E n \in nodes : OnCycle(n)

\* every edge joins declared nodes
EdgesDeclared == \A e \in edges : e[1] \in nodes /\ e[2] \in nodes

AllNodesFinished ==
    \A n \in nodes : n \in DOMAIN executions /\ executions[n].status \in Finished

----------------------------------------------------------------------------
(* C1: a node is launched (its task created, its record RUNNING, its agent  *)
(* called) only when every id of its dependency set is in `completed` and   *)
(* has a record that is COMPLETED or FAILED; no node is past PENDING while  *)
(* a predecessor is PENDING or RUNNING.                                     *)
C1_LaunchAfterPredecessors ==
    \A n \in DOMAIN executions :
        (Launched(n) \/ executions[n].status # "PENDING" \/ attempts[n] > 0) =>
            \A p \in executions[n].depends_on :
                /\ p \in completed
                /\ executions[p].status \in Finished
                /\ task[p].state \in {"returned", "raised"}

\* a node with a dependency is RUNNING
C1_Witness ==
    \E n \in DOMAIN executions :
        executions[n].status = "RUNNING" /\ executions[n].depends_on # {}

(* C2: when the dependency relation of the declared nodes has a cycle, the  *)
(* run never completes, no node on a cycle is ever launched or has its      *)
(* agent called (its record stays PENDING), and the run ends with the       *)
(* deadlock error raised and the stored status FAILED.                      *)
C2_CycleEndsInDeadlock ==
    /\ [](Cyclic =>
            /\ StoredStatus # "COMPLETED"
            /\ pc # "done"
            /\ \A n \in nodes :
                  OnCycle(n) =>
                      /\ ~Launched(n)
                      /\ attempts[n] = 0
                      /\ agent_input[n] = None
                      /\ n \in DOMAIN executions => executions[n].status = "PENDING")
    /\ (Cyclic ~> (pc = "failed" /\ report # None /\ StoredStatus = "FAILED"))

\* a cyclic workflow has deadlocked after a node off the cycle has run
C2_Witness ==
    /\ Cyclic
    /\ pc = "failed"
    /\ StoredStatus = "FAILED"
    /\ \E n \in nodes : attempts[n] > 0

(* C3: for an acyclic workflow whose edges join declared nodes, once the    *)
(* stored status is COMPLETED or FAILED every node's record is COMPLETED or *)
(* FAILED.                                                                  *)
C3_NoNodeLeftUnfinished ==
    (~Cyclic /\ EdgesDeclared /\ Terminal) => AllNodesFinished

\* an acyclic workflow with an edge has ended
C3_Witness ==
    /\ ~Cyclic
    /\ EdgesDeclared
    /\ edges # {}
    /\ Terminal
    /\ \E n \in nodes : executions[n].status = "COMPLETED"

(* C4: every run eventually has the stored status COMPLETED or FAILED;     *)
(* every wave launches a task, and every task awaited removes its node     *)
(* from `pending`.                                                          *)
C4_RunTerminates ==
    /\ <>Terminal
    /\ [][/\ (pc = "dispatching" /\ pc' = "draining") => tasks' # <<>>
          /\ (pc = "draining" /\ tasks' # tasks) =>
                 /\ pending' \subseteq pending
                 /\ Cardinality(pending') = Cardinality(pending) - 1]_vars

\* a run of two waves has ended
C4_Witness ==
    /\ Terminal
    /\ \E n \in nodes : executions[n].depends_on # {} /\ n \in completed

(* C5: the stored status becomes COMPLETED when every node has finished,   *)
(* whatever the nodes' own outcomes, and FAILED only when run raised the   *)
(* deadlock error; with every node finished the run is never FAILED.       *)
C5_RunStatus ==
    /\ pc = "done" => StoredStatus = "COMPLETED"
    /\ StoredStatus = "COMPLETED" => pc = "done" /\ AllNodesFinished
    /\ StoredStatus = "FAILED" =>
          /\ pc = "failed"
          /\ report # None
          /\ \E n \in pending : executions[n].depends_on \ completed # {}
    /\ AllNodesFinished => StoredStatus # "FAILED"
    /\ (AllNodesFinished /\ pc \in {"done", "failed"}) => StoredStatus = "COMPLETED"

\* a run whose nodes all failed is stored as COMPLETED
C5_Witness ==
    /\ StoredStatus = "COMPLETED"
    /\ nodes # {}
    /\ \A n \in nodes : executions[n].status = "FAILED"

(* C6: a node whose agent fails its first k attempts, k < max_retries, and *)
(* then succeeds ends COMPLETED with retries = k.                           *)
C6_RetryThenSucceed ==
    \A n \in DOMAIN executions :
        (/\ executions[n].status \in Finished
         /\ ConfigError(n) = None
         /\ behaviour[n].fails < max_retries) =>
            /\ executions[n].status = "COMPLETED"
            /\ executions[n].retries = behaviour[n].fails

(* C7: a node whose agent fails or times out on every attempt has its      *)
(* agent called max_retries + 1 times before it becomes FAILED, and its    *)
(* retries end at max_retries.                                              *)
C7_ExhaustRetries ==
    \A n \in DOMAIN executions :
        (/\ ConfigError(n) = None
         /\ behaviour[n].fails > max_retries) =>
            /\ executions[n].status = "FAILED" =>
                  /\ attempts[n] = max_retries + 1
                  /\ executions[n].retries = max_retries
            /\ attempts[n] <= max_retries + 1
            /\ executions[n].status # "COMPLETED"

(* C8, as claimed: whenever the agent of node n has been called, every     *)
(* COMPLETED predecessor p of n is a key of the agent's input, bound to    *)
(* the result of p's agent, whatever the initial inputs and parameters.    *)
C8_PredecessorResultBound ==
    \A n \in DOMAIN executions :
        \A p \in executions[n].depends_on :
            (/\ agent_input[n] # None
             /\ p \in DOMAIN executions
             /\ executions[p].status = "COMPLETED") =>
                /\ p \in DOMAIN agent_input[n]
                /\ agent_input[n][p] = executions[p].result

(* C8, amended: whenever the agent of node n has been called, every        *)
(* COMPLETED predecessor p of n is a key of the agent's input; it is bound *)
(* to the result of p's agent (the envelope unwrapped one level) unless    *)
(* n's own parameters have the key p, and then to the parameter's value.   *)
C8_PredecessorResultBoundUnlessParam ==
    \A n \in DOMAIN executions :
        \A p \in executions[n].depends_on :
            (/\ agent_input[n] # None
             /\ p \in DOMAIN executions
             /\ executions[p].status = "COMPLETED") =>
                /\ p \in DOMAIN agent_input[n]
                /\ agent_input[n][p] =
                       IF p \in DOMAIN node_map[n].params
                       THEN node_map[n].params[p]
                       ELSE executions[p].result

\* the result of a COMPLETED predecessor has replaced an initial input of
\* the same key in the input of a node whose parameters lack the key
C8_Witness ==
    \E n \in DOMAIN executions :
        \E p \in executions[n].depends_on :
            /\ agent_input[n] # None
            /\ p \in DOMAIN executions
            /\ executions[p].status = "COMPLETED"
            /\ p \in DOMAIN initial_inputs
            /\ p \notin DOMAIN node_map[n].params
            /\ node_map[n].params # EmptyDict

(* C9: an edge whose source or destination is no declared node does not    *)
(* make run raise the deadlock error: with no cycle among the declared     *)
(* nodes the deadlock error is never raised.                                *)
C9_UnknownEdgeIsNoDeadlock ==
    (~Cyclic /\ ~EdgesDeclared) => (pc # "failed" /\ report = None)

(* C10: once the stored status is COMPLETED or FAILED, polling the run     *)
(* returns an entry {status, result, error, retries} for every node.       *)
C10_PollReturnsEveryNode ==
    Terminal =>
        \A n \in nodes :
            /\ n \in DOMAIN get_run(RunId).results
            /\ DOMAIN get_run(RunId).results[n] = {"status", "result", "error", "retries"}

(* C11: node results are recorded in storage as each node completes: once  *)
(* the scheduler has moved a node to `completed`, a poller already finds   *)
(* that node's result in the stored run, also before the run is terminal.  *)
C11_ResultStoredAsNodeCompletes ==
    \A n \in completed :
        /\ RunId \in DOMAIN runs
        /\ n \in DOMAIN get_run(RunId).results

(* C12: the stored status follows PENDING -> RUNNING -> terminal: it is    *)
(* RUNNING while any node is executing, and a step that makes it terminal  *)
(* starts from RUNNING.                                                     *)
C12_StatusLifecycle ==
    /\ [](StoredStatus \in {"NONE", "PENDING", "RUNNING", "COMPLETED", "FAILED",
                            "CANCELLED"})
    /\ []((\E n \in DOMAIN executions : executions[n].status = "RUNNING")
              => StoredStatus = "RUNNING")
    /\ [][(Terminal' /\ ~Terminal) => StoredStatus = "RUNNING"]_vars

\* the handler of asyncio.CancelledError has run for node n
Cancelled(n) == task[n].state = "cancelled" /\ attempts[n] > 0

(* C13: a node task cancelled during its agent call leaves the node's      *)
(* record FAILED with the error "Node execution was cancelled", the task   *)
(* ends cancelled (the CancelledError is re-raised), and no further agent  *)
(* call is made for the node.                                               *)
C13_CancelledNodeFailed ==
    /\ [](\A n \in DOMAIN task :
              Cancelled(n) =>
                  /\ executions[n].status = "FAILED"
                  /\ executions[n].error = Msg(<<"Node execution was cancelled">>)
                  /\ executions[n].result = None
                  /\ attempts[n] = 1)
    /\ [][\A n \in DOMAIN task :
              Cancelled(n) =>
                  /\ task'[n] = task[n]
                  /\ attempts'[n] = attempts[n]
                  /\ executions'[n] = executions[n]]_vars

\* a node was cancelled during its agent call, the scheduler has met the
\* cancelled task, and another task of the wave has finished since
C13_Witness ==
    /\ pc = "aborted"
    /\ \E n \in DOMAIN task :
           /\ Cancelled(n)
           /\ \E m \in DOMAIN task : m # n /\ task[m].state \in {"returned", "raised"}

\* the task of node n was created and has not finished yet
Active(n) == task[n].state \in {"created", "awaiting"}

(* C14: the next wave is computed and launched only after every task of    *)
(* the current wave has finished: while the scheduler is dispatching no    *)
(* task is unfinished, every task of an earlier wave has finished and was  *)
(* drained, and two nodes that are RUNNING at once belong to one wave.     *)
C14_WaveBarrier ==
    /\ pc = "dispatching" => \A n \in nodes : ~Active(n)
    /\ \A n \in nodes :
           (Launched(n) /\ wave_of[n] < Wave) =>
               /\ task[n].state \in {"returned", "raised"}
               /\ n \in completed
    /\ \A n, m \in DOMAIN executions :
           (executions[n].status = "RUNNING" /\ executions[m].status = "RUNNING")
               => wave_of[n] = wave_of[m]

\* the only predecessor p of node n has finished and was drained while a
\* node of p's wave is still RUNNING, and n has not been launched
C14_Witness ==
    \E n \in pending : \E p \in completed :
        /\ DependsOn(n) = {p}
        /\ ~Launched(n)
        /\ \E m \in DOMAIN executions :
               /\ m # p
               /\ wave_of[m] = wave_of[p]
               /\ executions[m].status = "RUNNING"

\* node n is waiting behind a FAILED predecessor, all its predecessors drained
BehindFailed(n) ==
    /\ n \in pending
    /\ ~Launched(n)
    /\ executions[n].depends_on \subseteq completed
    /\ \E p \in executions[n].depends_on : executions[p].status = "FAILED"

\* node n was launched in a wave after the waves of all its predecessors
LaunchedLater(n) ==
    /\ n \in nodes
    /\ Launched(n)
    /\ \A p \in DependsOn(n) : p \in nodes /\ wave_of[p] < wave_of[n]

(* C15: a node that ends FAILED is still moved from `pending` to           *)
(* `completed` when its task is drained; every finished node's status is   *)
(* the outcome of its own agent call, whatever its siblings did; with no   *)
(* cycle and no undeclared edge the deadlock error is never raised,        *)
(* whichever nodes fail; and a node whose predecessors have all finished,  *)
(* one of them FAILED, is launched in a later wave.                         *)
C15_FailureContainment ==
    /\ [][(pc = "draining" /\ tasks' # tasks /\ task[Head(tasks)].state = "raised")
              => /\ executions'[Head(tasks)].status = "FAILED"
                 /\ Head(tasks) \in completed'
                 /\ Head(tasks) \notin pending']_vars
    /\ [](\A n \in nodes :
              task[n].state \in {"returned", "raised"} =>
                  (executions[n].status = "COMPLETED"
                       <=> (ConfigError(n) = None /\ Outcome(behaviour[n], 1) = "ok")))
    /\ []((~Cyclic /\ EdgesDeclared) => pc # "failed")
    /\ \A n \in Ids : BehindFailed(n) ~> LaunchedLater(n)

\* a dependent of a FAILED node finished in a later wave, and a sibling of
\* the FAILED node, launched in the same wave, ended COMPLETED
C15_Witness ==
    \E n \in nodes : \E p \in DependsOn(n) \cap nodes :
        /\ executions # EmptyDict
        /\ executions[p].status = "FAILED"
        /\ LaunchedLater(n)
        /\ executions[n].status \in Finished
        /\ \E m \in nodes :
               /\ m # p
               /\ wave_of[m] = wave_of[p]
               /\ executions[m].status = "COMPLETED"

(* C16: when the deadlock error is raised its report lists exactly the     *)
(* nodes still in `pending`, each with the set depends_on minus completed; *)
(* every node that is not listed was launched in an earlier wave and has   *)
(* finished.                                                                *)
C16_DeadlockReport ==
    pc = "failed" =>
        /\ report # None
        /\ DOMAIN report.blocked = pending
        /\ \A n \in pending :
               /\ report.blocked[n] = DependsOn(n) \ completed
               /\ report.blocked[n] # {}
               /\ ~Launched(n)
        /\ \A n \in nodes \ pending :
               /\ n \in completed
               /\ n \notin DOMAIN report.blocked
               /\ task[n].state \in {"returned", "raised"}
               /\ executions[n].status \in Finished

\* the deadlock error was raised after a wave has run, and a listed node
\* has a predecessor that finished: its entry lacks that predecessor
C16_Witness ==
    /\ pc = "failed"
    /\ \E n \in pending : DependsOn(n) \cap completed # {}
    /\ Cardinality(pending) >= 2

\* the position of a node status on PENDING -> RUNNING -> {COMPLETED | FAILED}
Rank(status) ==
    CASE status = "PENDING" -> 0
      [] status = "RUNNING" -> 1
      [] status \in Finished -> 2

(* C17: within one run a node's status only moves forward along            *)
(* PENDING -> RUNNING -> {COMPLETED | FAILED}: no step lowers its          *)
(* position, and a COMPLETED or FAILED node keeps its status, whichever    *)
(* way the tasks of a wave and the drain loop interleave.                  *)
C17_StatusMonotonic ==
    /\ [](\A n \in DOMAIN executions :
              executions[n].status \in {"PENDING", "RUNNING", "COMPLETED", "FAILED"})
    /\ [][\A n \in DOMAIN executions :
              /\ n \in DOMAIN executions'
              /\ Rank(executions'[n].status) >= Rank(executions[n].status)
              /\ executions[n].status \in Finished
                     => executions'[n].status = executions[n].status]_vars

\* the drain loop has handled a FAILED node and a COMPLETED node of one
\* wave, and a node of a later wave is RUNNING
C17_Witness ==
    \E n, m, k \in DOMAIN executions :
        /\ {n, m} \subseteq completed
        /\ wave_of[n] = wave_of[m]
        /\ executions[n].status = "FAILED"
        /\ executions[m].status = "COMPLETED"
        /\ executions[k].status = "RUNNING"

(* C18: once the execution records exist, a step of the scheduler (one     *)
(* that moves the run loop or its task list) leaves every record as it     *)
(* was: status, result, error and retries are written by the node's own    *)
(* task only.                                                               *)
C18_OnlyOwnerWritesRecord ==
    [][(pc' # pc \/ tasks' # tasks \/ completed' # completed) =>
           \A n \in DOMAIN executions :
               /\ n \in DOMAIN executions'
               /\ executions'[n] = executions[n]]_vars

\* what a finished predecessor p hands to its dependents: its result, or the
\* error entry the drain loop recorded for it
PredBinding(p) ==
    IF executions[p].status = "COMPLETED"
    THEN executions[p].result
    ELSE [error |-> executions[p].error]

(* C19: the input a node's agent receives holds the keys of the initial    *)
(* inputs, of the node's predecessors and of its parameters; a key of the  *)
(* parameters has the parameter's value, another key naming a predecessor  *)
(* has that predecessor's binding, any other key its initial input; and    *)
(* the initial inputs of the request are never changed.                    *)
C19_InputPrecedence ==
    /\ [](\A n \in DOMAIN executions :
              agent_input[n] # None =>
                  /\ DOMAIN agent_input[n] =
                         DOMAIN initial_inputs \cup DependsOn(n)
                             \cup DOMAIN node_map[n].params
                  /\ \A k \in DOMAIN agent_input[n] :
                         agent_input[n][k] =
                             IF k \in DOMAIN node_map[n].params
                             THEN node_map[n].params[k]
                             ELSE IF k \in DependsOn(n)
                                  THEN PredBinding(k)
                                  ELSE initial_inputs[k])
    /\ [][initial_inputs' = initial_inputs]_vars

\* the agent of a node got an input in which one key is an initial input,
\* a predecessor and a parameter at once, and a second key is an initial
\* input only
C19_Witness ==
    \E n \in DOMAIN executions : \E k, j \in DOMAIN initial_inputs :
        /\ agent_input[n] # None
        /\ k \in DependsOn(n)
        /\ k \in DOMAIN node_map[n].params
        /\ node_map[n].params[k] # initial_inputs[k]
        /\ node_map[n].params[k] # PredBinding(k)
        /\ agent_input[n][k] = node_map[n].params[k]
        /\ j \notin DependsOn(n) \cup DOMAIN node_map[n].params
        /\ agent_input[n][j] = initial_inputs[j]

(* C20: when a predecessor p of node n ended FAILED, n still runs and the  *)
(* input of n's agent has no key p, unless the initial inputs or n's own   *)
(* parameters supply that key.                                              *)
C20_FailedPredecessorUnbound ==
    \A n \in DOMAIN executions : \A p \in DependsOn(n) \cap nodes :
        (executions[p].status = "FAILED" /\ p \in completed) =>
            /\ pc = "done" => task[n].state \in {"returned", "raised"}
            /\ (/\ agent_input[n] # None
                /\ p \notin DOMAIN initial_inputs
                /\ p \notin DOMAIN node_map[n].params)
                   => p \notin DOMAIN agent_input[n]

\* the nodes whose agent call is in progress
Running == {n \in DOMAIN executions : executions[n].status = "RUNNING"}

(* C21: max_concurrent is not enforced: a dispatch creates a task for      *)
(* every node of the runnable set, whatever its size, and the semaphore    *)
(* built from max_concurrent is never acquired: all its slots stay free.   *)
C21_ConcurrencyUnbounded ==
    /\ [](pc # "submitted" => semaphore = asyncio_Semaphore(max_concurrent))
    /\ [][(pc = "dispatching" /\ pc' = "draining") =>
              /\ Len(tasks') = Cardinality(Runnable)
              /\ \A n \in Runnable : task'[n].state = "created"]_vars

\* more than max_concurrent nodes, the whole runnable set of one wave, are
\* RUNNING at once
C21_Witness ==
    /\ Cardinality(Running) > max_concurrent
    /\ \A n, m \in Running : wave_of[n] = wave_of[m]
    /\ Running = pending

(* C22: every node is dispatched in at most one wave: a node whose task    *)
(* was created keeps its wave and never gets a second task, its agent is   *)
(* called at most once, and a node in `completed` is not runnable; from    *)
(* the first loop iteration on `pending` and `completed` are disjoint and  *)
(* together are the declared node ids.                                      *)
C22_DispatchedOnce ==
    /\ [][\A n \in nodes :
              Launched(n) =>
                  /\ wave_of'[n] = wave_of[n]
                  /\ task'[n].state = "created" => task[n].state = "created"]_vars
    /\ [](\A n \in nodes : attempts[n] <= 1)
    /\ [](pc \notin {"submitted", "initializing"} =>
              /\ Runnable \cap completed = {}
              /\ pending \cap completed = {}
              /\ pending \cup completed = nodes
              /\ \A n \in completed : task[n].state \in {"returned", "raised"})

\* a second wave has run: a node of it and a node of the first wave have
\* finished and are in `completed`, and a node is still in `pending`
C22_Witness ==
    /\ pc = "dispatching"
    /\ pending # {}
    /\ \E n, m \in completed : wave_of[n] = 1 /\ wave_of[m] = 2

(* C23: a terminal stored status is stable however cancel_run and the      *)
(* workflow interleave: once the stored status is COMPLETED, FAILED or     *)
(* CANCELLED no step changes it; a run cancelled while its workflow        *)
(* executes stays CANCELLED when the workflow finishes.                    *)
C23_TerminalStatusStable ==
    [][(StoredStatus \in {"COMPLETED", "FAILED", "CANCELLED"})
           => (StoredStatus' = StoredStatus)]_vars

(* C24: when a node task is cancelled while the scheduler drains its wave, *)
(* the run ends with the stored status FAILED: once the workflow has       *)
(* stopped on the cancellation the stored status is FAILED, not PENDING.   *)
C24_CancelledRunEndsFailed ==
    pc = "aborted" => StoredStatus = "FAILED"

====
